---- MODULE Spec2Model ----
(***************************************************************************)
(* Life cycle of one connection through the knock proxy                    *)
(* (src/proxy-libevent.c): initial handshake (initial_accept,              *)
(* initial_read, initial_error), back connection handshake (create_pipe,   *)
(* back_connection, create_contexts) and the active pipe (pipe_read,       *)
(* pipe_error).                                                            *)
(*                                                                         *)
(* The two bufferevents of a connection are "client" (the accepted socket) *)
(* and "backend" (the outbound socket).  Each has an input and an output   *)
(* evbuffer, the EV_READ enable bit, a read and a write timeout and the    *)
(* callbacks installed with bufferevent_setcb.  The struct otherside       *)
(* record handed to the callbacks of endpoint e is ctx[e].                 *)
(*                                                                         *)
(* Time is counted in ticks of one second.  A bufferevent timeout is an    *)
(* idle timeout: libevent restarts the read timeout on every successful    *)
(* read and the write timeout on every successful write, and the write     *)
(* timeout only runs while output is pending.                              *)
(***************************************************************************)
EXTENDS Integers, Sequences, FiniteSets

\* ------------------------------------------------------------ bounds
\* longest byte stream the client sends during the connection
MaxClientBytes == 4
\* number of bytes the backend sends during the connection
MaxBackendBytes == 1
\* config->knock_timeout, in ticks
KnockTimeout == 1
\* config->default_timeout, in ticks
DefaultTimeout == 2

\* ------------------------------------------------------------ configuration
\* struct timeval ones = { 1, 0 }
Grace == 1

ByteVals == {1, 2}
\* config->knock_value, config->knock_size
knock_value == <<1, 2>>
knock_size == Len(knock_value)
normal_port == "normal"
hidden_port == "hidden"

E == {"client", "backend"}
NULL == "NULL"
Other(e) == IF e = "client" THEN "backend" ELSE "client"

SeqsUpTo(S, n) == UNION {[1..k -> S] : k \in 0..n}
\* what the client sends: every choice of the first knock_size bytes, or of
\* fewer, and after knock_size bytes either nothing or a tail that repeats
\* the knock up to MaxClientBytes
KnockTail(n) == [i \in 1..n |-> knock_value[((i - 1) % knock_size) + 1]]
ClientStreams ==
    SeqsUpTo(ByteVals, knock_size - 1)
        \cup {h \o KnockTail(n) : h \in [1..knock_size -> ByteVals],
                                 n \in {0, MaxClientBytes - knock_size}}
BackendStream == [i \in 1..MaxBackendBytes |-> 10 + i]

Min(a, b) == IF a < b THEN a ELSE b
Drop(s, n) == SubSeq(s, n + 1, Len(s))
Take(s, n) == SubSeq(s, 1, n)

VARIABLES
    bev,        \* [E -> "none" | "live" | "freed"]: the bufferevent's allocation
    cb,         \* [E -> callbacks installed: "none" | "initial" | "wait" | "connect" | "pipe"]
    rdEnabled,  \* [E -> BOOLEAN]: EV_READ enabled
    rto,        \* [E -> Nat]: read timeout setting, 0 for NULL
    wto,        \* [E -> Nat]: write timeout setting, 0 for NULL
    rleft,      \* [E -> Nat]: ticks left on the running read timeout
    wleft,      \* [E -> Nat]: ticks left on the running write timeout
    input,      \* [E -> Seq]: input evbuffer
    output,     \* [E -> Seq]: output evbuffer
    delivered,  \* [E -> Seq]: bytes written to the socket of e
    stream,     \* [E -> Seq]: the bytes the remote peer of e sends
    pos,        \* [E -> Nat]: how many bytes of stream[e] were read from the socket
    ctx,        \* [E -> struct otherside]
    ctxAlloc,   \* [E -> "none" | "live" | "freed"]: allocation of ctx[e]
    port,       \* port chosen by initial_read, NULL before
    connects,   \* the ports bufferevent_socket_connect was called with
    uaf,        \* a callback touched a freed bufferevent or a freed record
    last,       \* [E -> "none" | "read" | "timeout" | "error"]: last event of the
                \* leg in the active pipe
    quiet,      \* [E -> BOOLEAN]: leg timed out and no leg forwarded since
    decided,    \* the input buffer initial_read examined, <<>> before
    sinceTeardown, \* ticks since the first endpoint of the pipe was freed
    bevFrees,   \* [E -> 0..2]: calls of bufferevent_free on the endpoint
    ctxFrees    \* [E -> 0..2]: calls of free on the endpoint's struct otherside

vars == <<bev, cb, rdEnabled, rto, wto, rleft, wleft, input, output, delivered,
          stream, pos, ctx, ctxAlloc, port, connects, uaf, last, quiet,
          decided, sinceTeardown, bevFrees, ctxFrees>>

\* struct otherside as set by nobody yet
NoCtx == [bev |-> NULL, pair |-> NULL, other_timedout |-> FALSE]

Init ==
    /\ bev = [e \in E |-> "none"]
    /\ cb = [e \in E |-> "none"]
    /\ rdEnabled = [e \in E |-> FALSE]
    /\ rto = [e \in E |-> 0]
    /\ wto = [e \in E |-> 0]
    /\ rleft = [e \in E |-> 0]
    /\ wleft = [e \in E |-> 0]
    /\ input = [e \in E |-> <<>>]
    /\ output = [e \in E |-> <<>>]
    /\ delivered = [e \in E |-> <<>>]
    /\ \E s \in ClientStreams :
          stream = [e \in E |-> IF e = "client" THEN s ELSE BackendStream]
    /\ pos = [e \in E |-> 0]
    /\ ctx = [e \in E |-> NoCtx]
    /\ ctxAlloc = [e \in E |-> "none"]
    /\ port = NULL
    /\ connects = <<>>
    /\ uaf = FALSE
    /\ last = [e \in E |-> "none"]
    /\ quiet = [e \in E |-> FALSE]
    /\ decided = <<>>
    /\ sinceTeardown = 0
    /\ bevFrees = [e \in E |-> 0]
    /\ ctxFrees = [e \in E |-> 0]

\* the program state as one record, so that a handler is an operator from
\* the state before the callback to the state after it
State ==
    [bev |-> bev, cb |-> cb, rdEnabled |-> rdEnabled, rto |-> rto, wto |-> wto,
     rleft |-> rleft, wleft |-> wleft, input |-> input, output |-> output,
     delivered |-> delivered, stream |-> stream, pos |-> pos, ctx |-> ctx,
     ctxAlloc |-> ctxAlloc, port |-> port, connects |-> connects, uaf |-> uaf,
     last |-> last, quiet |-> quiet, decided |-> decided,
     sinceTeardown |-> sinceTeardown, bevFrees |-> bevFrees,
     ctxFrees |-> ctxFrees]

Becomes(s) ==
    /\ bev' = s.bev
    /\ cb' = s.cb
    /\ rdEnabled' = s.rdEnabled
    /\ rto' = s.rto
    /\ wto' = s.wto
    /\ rleft' = s.rleft
    /\ wleft' = s.wleft
    /\ input' = s.input
    /\ output' = s.output
    /\ delivered' = s.delivered
    /\ stream' = s.stream
    /\ pos' = s.pos
    /\ ctx' = s.ctx
    /\ ctxAlloc' = s.ctxAlloc
    /\ port' = s.port
    /\ connects' = s.connects
    /\ uaf' = s.uaf
    /\ last' = s.last
    /\ quiet' = s.quiet
    /\ decided' = s.decided
    /\ sinceTeardown' = s.sinceTeardown
    /\ bevFrees' = s.bevFrees
    /\ ctxFrees' = s.ctxFrees

\* ------------------------------------------------------------ libevent
\* the read timeout of e is running
ReadArmed(e) == bev[e] = "live" /\ rdEnabled[e] /\ rto[e] > 0
\* the write timeout of e is running: only while output is pending
WriteArmed(e) == bev[e] = "live" /\ output[e] # <<>> /\ wto[e] > 0
Expired(e) == (ReadArmed(e) /\ rleft[e] = 0) \/ (WriteArmed(e) /\ wleft[e] = 0)

\* both endpoints of the pipe are live
ActiveIn(s) == \A e \in E : s.bev[e] = "live" /\ s.cb[e] = "pipe"
Active == ActiveIn(State)
\* one endpoint of the pipe was freed, the other is live
Draining ==
    \E e \in E : bev[e] = "live" /\ cb[e] = "pipe" /\ bev[Other(e)] = "freed"

\* libevent polls the socket of e: for reading while EV_READ is enabled, for
\* writing while output is pending; end of file and socket errors are found
\* by these polls only
Watched(e) == bev[e] = "live" /\ (rdEnabled[e] \/ output[e] # <<>>)
\* pipe_error is the event callback of e: set by initial_read with a NULL
\* ctx (line 211) and by back_connection with the record of e (152, 154)
PipeErrorInstalled(e) == bev[e] = "live" /\ cb[e] \in {"wait", "pipe"}

\* the socket of e becomes readable: libevent moves n bytes into the input
\* evbuffer and restarts the read timeout
SocketRead(s, e, n) ==
    [s EXCEPT !.input[e] = @ \o SubSeq(s.stream[e], s.pos[e] + 1, s.pos[e] + n),
              !.pos[e] = @ + n,
              !.rleft[e] = s.rto[e]]

\* the socket of e becomes writable: libevent writes n bytes of the output
\* evbuffer and restarts the write timeout, which stops with an empty output
SocketWrite(s, e, n) ==
    [s EXCEPT !.delivered[e] = @ \o Take(s.output[e], n),
              !.output[e] = Drop(@, n),
              !.wleft[e] = IF n < Len(s.output[e]) THEN s.wto[e] ELSE 0]

\* libevent disables the direction that timed out before it runs the event
\* callback with BEV_EVENT_TIMEOUT
TimeoutFired(s, e, what) ==
    IF what = "read"
    THEN [s EXCEPT !.rdEnabled[e] = FALSE, !.rleft[e] = 0]
    ELSE [s EXCEPT !.wleft[e] = 0]

\* bufferevent_enable(e, EV_READ): the read event is added with its timeout
bufferevent_enable(s, e) ==
    [s EXCEPT !.rdEnabled[e] = TRUE,
              !.rleft[e] = s.rto[e],
              !.uaf = @ \/ s.bev[e] # "live"]

\* bufferevent_disable(e, EV_READ)
bufferevent_disable(s, e) ==
    [s EXCEPT !.rdEnabled[e] = FALSE, !.rleft[e] = 0]

\* bufferevent_set_timeouts(e, r, w), 0 for NULL: pending events are added
\* again with the new timeouts
bufferevent_set_timeouts(s, e, r, w) ==
    [s EXCEPT !.rto[e] = r,
              !.wto[e] = w,
              !.rleft[e] = IF s.rdEnabled[e] THEN r ELSE 0,
              !.wleft[e] = IF s.output[e] # <<>> THEN w ELSE 0,
              !.uaf = @ \/ s.bev[e] # "live"]

\* bufferevent_free(e): the socket is closed, pending input and output are
\* dropped and no event of e is delivered any more
bufferevent_free(s, e) ==
    [s EXCEPT !.bev[e] = "freed",
              !.cb[e] = "none",
              !.rdEnabled[e] = FALSE,
              !.rto[e] = 0,
              !.wto[e] = 0,
              !.rleft[e] = 0,
              !.wleft[e] = 0,
              !.input[e] = <<>>,
              !.output[e] = <<>>,
              !.bevFrees[e] = Min(@ + 1, 2),
              !.uaf = @ \/ s.bev[e] # "live"]

\* the moved bytes put in front of what dst holds
read_buffer_prepends(src, dst) == src \o dst

\* bufferevent_read_buffer(src, dst): all of src's input is moved to the end
\* of dst
read_buffer(src, dst) == dst \o src

\* ------------------------------------------------------------ active pipe
\* an access through a struct otherside pointer r: NULL or freed is a fault
BadCtx(s, r) == r \notin E \/ s.ctxAlloc[r] # "live"
\* an access to the bufferevent b
BadBev(s, b) == b \notin E \/ s.bev[b] # "live"

\* a flag that is set and never cleared
SetOtherTimedoutSticky(s, r, v) ==
    IF r \in E
    THEN [s EXCEPT !.ctx[r].other_timedout = @ \/ v, !.uaf = @ \/ BadCtx(s, r)]
    ELSE [s EXCEPT !.uaf = TRUE]

\* con->pair->other_timedout = v
SetOtherTimedout(s, r, v) ==
    IF r \in E
    THEN [s EXCEPT !.ctx[r].other_timedout = v, !.uaf = @ \/ BadCtx(s, r)]
    ELSE [s EXCEPT !.uaf = TRUE]

\* bufferevent_read_buffer(bev, bufferevent_get_output(con->bev))
Forward(s, e, b) ==
    IF b \in E
    THEN [s EXCEPT !.output[b] = read_buffer(s.input[e], @),
                   !.input[e] = <<>>,
                   !.wleft[b] = IF s.output[b] = <<>> /\ s.input[e] # <<>>
                                THEN s.wto[b] ELSE @,
                   !.uaf = @ \/ BadBev(s, b)]
    ELSE [s EXCEPT !.uaf = TRUE]

\* pipe_read clearing con->other_timedout, the flag of its own record
pipe_read_clears_own(s, e) ==
    LET con == s.ctx[e] IN
    IF con.bev # NULL
    THEN Forward(SetOtherTimedout(s, e, FALSE), e, con.bev)
    ELSE [s EXCEPT !.input[e] = <<>>]

\* a pipe_read that looks for the knock again in what it forwards
pipe_read_redetects(s, e) ==
    LET con == s.ctx[e]
        t == [s EXCEPT !.input[e] = IF Len(@) >= Len(knock_value)
                                       /\ SubSeq(@, 1, Len(knock_value)) = knock_value
                                    THEN SubSeq(@, Len(knock_value) + 1, Len(@))
                                    ELSE @]
    IN  IF con.bev # NULL
        THEN Forward(SetOtherTimedout(t, con.pair, FALSE), e, con.bev)
        ELSE [s EXCEPT !.input[e] = <<>>]

\* a pipe_read that leaves the input where it is when the peer is gone
pipe_read_keeps_input(s, e) ==
    LET con == s.ctx[e] IN
    IF con.bev # NULL
    THEN Forward(SetOtherTimedout(s, con.pair, FALSE), e, con.bev)
    ELSE s

\* pipe_read: the read callback of endpoint e, ctx = ctx[e]
pipe_read(s, e) ==
    LET con == s.ctx[e] IN
    IF con.bev # NULL
    THEN Forward(SetOtherTimedout(s, con.pair, FALSE), e, con.bev)
    ELSE [s EXCEPT !.input[e] = <<>>]

\* the test of line 99 inverted
OnlyFlagInverted(con, isTimeout) ==
    isTimeout /\ con.bev # NULL /\ con.other_timedout

\* pipe_error, the test of lines 94-104: a timeout with a live peer that the
\* other side has not flagged only flags this side and returns
OnlyFlag(con, isTimeout) ==
    isTimeout /\ con.bev # NULL /\ ~con.other_timedout

\* a grace period that covers reads only
GrantGraceReadOnly(s, b) ==
    IF b \in E
    THEN bufferevent_enable(bufferevent_set_timeouts(s, b, Grace, 0), b)
    ELSE [s EXCEPT !.uaf = TRUE]

\* pipe_error, lines 114-116: the peer gets one second for reads and writes
GrantGrace(s, b) ==
    IF b \in E
    THEN bufferevent_enable(bufferevent_set_timeouts(s, b, Grace, Grace), b)
    ELSE [s EXCEPT !.uaf = TRUE]

\* the severing without con->pair->bev = NULL
SeverPairOnly(s, r) ==
    IF r \in E
    THEN [s EXCEPT !.ctx[r].pair = NULL, !.uaf = @ \/ BadCtx(s, r)]
    ELSE [s EXCEPT !.uaf = TRUE]

\* the severing without con->pair->pair = NULL
SeverBevOnly(s, r) ==
    IF r \in E
    THEN [s EXCEPT !.ctx[r].bev = NULL, !.uaf = @ \/ BadCtx(s, r)]
    ELSE [s EXCEPT !.uaf = TRUE]

\* pipe_error, lines 117-118: con->pair->pair = NULL; con->pair->bev = NULL
Sever(s, r) ==
    IF r \in E
    THEN [s EXCEPT !.ctx[r].pair = NULL, !.ctx[r].bev = NULL,
                   !.uaf = @ \/ BadCtx(s, r)]
    ELSE [s EXCEPT !.uaf = TRUE]

\* the close taking the peer down at once instead of letting it drain
CloseBothSides(s, e) ==
    LET con == s.ctx[e]
        s1 == bufferevent_free(s, e)
        s2 == IF con.bev # NULL
              THEN [bufferevent_free(s1, con.bev) EXCEPT !.ctxAlloc[con.pair] = "freed",
                                                         !.ctxFrees[con.pair] = Min(@ + 1, 2)]
              ELSE s1
    IN  [s2 EXCEPT !.ctxAlloc[e] = "freed", !.ctxFrees[e] = Min(@ + 1, 2),
                   !.uaf = @ \/ BadCtx(s, e)]

\* pipe_error, lines 107-120: free the endpoint, let the peer drain, free con
CloseSide(s, e) ==
    LET con == s.ctx[e]
        s1 == bufferevent_free(s, e)
        s2 == IF con.bev # NULL THEN Sever(GrantGrace(s1, con.bev), con.pair)
              ELSE s1
    IN  [s2 EXCEPT !.ctxAlloc[e] = "freed", !.ctxFrees[e] = Min(@ + 1, 2),
                   !.uaf = @ \/ BadCtx(s, e)]

\* a pipe_error that forgets free(con) when the peer is gone already
pipe_error_leaks_con(s, e, isTimeout) ==
    LET con == s.ctx[e]
        s1 == IF isTimeout THEN bufferevent_enable(s, e) ELSE s
        s2 == IF isTimeout /\ con.bev # NULL
              THEN SetOtherTimedout(s1, con.pair, TRUE) ELSE s1
        closed == CloseSide(s2, e)
    IN  IF OnlyFlag(con, isTimeout) THEN s2
        ELSE IF con.bev = NULL
             THEN [closed EXCEPT !.ctxAlloc[e] = s.ctxAlloc[e],
                                 !.ctxFrees[e] = s.ctxFrees[e]]
             ELSE closed

\* pipe_error: the event callback of endpoint e, ctx = ctx[e]
pipe_error(s, e, isTimeout) ==
    LET con == s.ctx[e]
        s1 == IF isTimeout THEN bufferevent_enable(s, e) ELSE s
        s2 == IF isTimeout /\ con.bev # NULL
              THEN SetOtherTimedout(s1, con.pair, TRUE) ELSE s1
    IN  IF OnlyFlag(con, isTimeout) THEN s2 ELSE CloseSide(s2, e)

\* ------------------------------------------------------------ back connection
\* create_contexts(forward, backward): result[0] is the record of forward
create_contexts(s, forward, backward) ==
    [s EXCEPT !.ctx[forward] =
                  [bev |-> backward, pair |-> backward, other_timedout |-> FALSE],
              !.ctx[backward] =
                  [bev |-> forward, pair |-> forward, other_timedout |-> FALSE],
              !.ctxAlloc[forward] = "live",
              !.ctxAlloc[backward] = "live"]

\* the failure path without the free of other_side
FreeBackendOnly(s, b, other_side) == bufferevent_free(s, b)

\* lines 162-165 and 184-187: both bufferevents are freed
FreeBoth(s, b, other_side) ==
    bufferevent_free(bufferevent_free(s, b), other_side)

\* back_connection: the event callback of the connecting bufferevent b,
\* ctx = other_side
back_connection(s, b, connected, other_side) ==
    IF connected
    THEN LET s1 == create_contexts(s, other_side, b)
             s2 == bufferevent_enable(s1, other_side)
             s3 == Forward(s2, other_side, b)
             s4 == [s3 EXCEPT !.cb[other_side] = "pipe", !.cb[b] = "pipe"]
             s5 == bufferevent_enable(s4, b)
             s6 == bufferevent_set_timeouts(s5, b, DefaultTimeout, 0)
         IN  bufferevent_set_timeouts(s6, other_side, DefaultTimeout, 0)
    ELSE FreeBoth(s, b, other_side)

\* a create_pipe that falls back to the other port when the connect fails
create_pipe_fallback(s, other_side, p, started) ==
    LET b == Other(other_side)
        q == IF p = normal_port THEN hidden_port ELSE normal_port
        s1 == [s EXCEPT !.bev[b] = "live",
                        !.cb[b] = "connect",
                        !.connects = IF started THEN Append(@, p)
                                     ELSE Append(Append(@, p), q)]
    IN  s1

\* create_pipe: started is the outcome of bufferevent_socket_connect
create_pipe(s, other_side, p, started) ==
    LET b == Other(other_side)
        s1 == [s EXCEPT !.bev[b] = "live",
                        !.cb[b] = "connect",
                        !.connects = Append(@, p)]
    IN  IF started THEN s1 ELSE FreeBoth(s1, b, other_side)

\* ------------------------------------------------------------ initial handshake
\* the comparison looking at the first byte only
KnockMatchesFirstByte(buf) ==
    Len(buf) >= 1 /\ buf[1] = knock_value[1]

\* lines 202-203: knock_size bytes are buffered and equal the knock
KnockMatches(buf) ==
    Len(buf) >= knock_size /\ Take(buf, knock_size) = knock_value

\* a choice that takes a proper prefix of the knock for the knock
ChoosePortOnPrefix(buf) ==
    IF KnockMatches(buf) \/ (buf # <<>> /\ buf = Take(knock_value, Len(buf)))
    THEN hidden_port ELSE normal_port

\* lines 198-207: the port, and the buffer after the drain
ChoosePort(buf) == IF KnockMatches(buf) THEN hidden_port ELSE normal_port
\* a drain that empties the buffer on a match
AfterKnockDrainsAll(buf) == IF KnockMatches(buf) THEN <<>> ELSE buf
AfterKnock(buf) == IF KnockMatches(buf) THEN Drop(buf, knock_size) ELSE buf

\* an initial_read that leaves EV_READ enabled
initial_read_keeps_reading(s, e, started) ==
    LET buf == s.input[e]
        p == ChoosePort(buf)
        s1 == [s EXCEPT !.input[e] = AfterKnock(buf), !.port = p]
        s2 == bufferevent_set_timeouts(s1, e, 0, 0)
        s3 == [s2 EXCEPT !.cb[e] = "wait"]
    IN  create_pipe(s3, e, p, started)

\* initial_read: the read callback of a new connection e
initial_read(s, e, started) ==
    LET buf == s.input[e]
        p == ChoosePort(buf)
        s1 == [s EXCEPT !.input[e] = AfterKnock(buf), !.port = p]
        s2 == bufferevent_set_timeouts(bufferevent_disable(s1, e), e, 0, 0)
        s3 == [s2 EXCEPT !.cb[e] = "wait"]
    IN  create_pipe(s3, e, p, started)

\* an initial_error that treats the timeout like any other error
initial_error_closes(s, e, isTimeout, started) ==
    bufferevent_free([s EXCEPT !.cb[e] = "none"], e)

\* an initial_error that routes the connection whatever the event is
initial_error_always_routes(s, e, isTimeout, started) ==
    initial_read(s, e, started)

\* initial_error: the event callback of a new connection e
initial_error(s, e, isTimeout, started) ==
    IF isTimeout
    THEN initial_read(s, e, started)
    ELSE bufferevent_free([s EXCEPT !.cb[e] = "none"], e)

\* initial_accept, lines 239-245
initial_accept(s, e) ==
    LET s1 == [s EXCEPT !.bev[e] = "live", !.cb[e] = "initial"]
    IN  bufferevent_set_timeouts(bufferevent_enable(s1, e), e, KnockTimeout, 0)

\* ------------------------------------------------------------ events
\* the history of the pipe after an event of kind k on leg e handled in state
\* s0 with result s1: it is written while both legs are live and stands as it
\* was at the teardown afterwards
Recorded(s0, s1, e, k) ==
    IF ActiveIn(s0)
    THEN [s1 EXCEPT !.last[e] = k,
                    !.quiet = IF k = "read" THEN [x \in E |-> FALSE]
                              ELSE IF k = "timeout" THEN [s0.quiet EXCEPT ![e] = TRUE]
                              ELSE s0.quiet]
    ELSE [s1 EXCEPT !.sinceTeardown =
                        IF \E x \in E : s1.bev[x] = "live" THEN @ ELSE 0]

Unread(e) == Len(stream[e]) - pos[e]

\* a connection is accepted on the external port
Accept ==
    /\ bev["client"] = "none"
    /\ Becomes(initial_accept(State, "client"))

\* the first bytes of the client arrive: initial_read
\* started is the outcome of bufferevent_socket_connect in create_pipe
ClientHello(started) ==
    /\ bev["client"] = "live" /\ cb["client"] = "initial" /\ rdEnabled["client"]
    /\ \E n \in 1..Unread("client") :
          LET s1 == SocketRead(State, "client", n)
          IN  Becomes([initial_read(s1, "client", started)
                          EXCEPT !.decided = s1.input["client"]])

\* the knock timeout passes: initial_error with BEV_EVENT_TIMEOUT
KnockTimedOut(started) ==
    /\ cb["client"] = "initial" /\ Expired("client")
    /\ Becomes(initial_error(TimeoutFired(State, "client", "read"),
                             "client", TRUE, started))

\* the client fails before the decision: initial_error without the timeout bit
ClientLost ==
    /\ bev["client"] = "live" /\ cb["client"] = "initial"
    /\ Becomes(initial_error(State, "client", FALSE, FALSE))

\* the connect result arrives: back_connection with BEV_EVENT_CONNECTED
Connected ==
    /\ bev["backend"] = "live" /\ cb["backend"] = "connect"
    /\ Becomes(back_connection(State, "backend", TRUE, "client"))

\* the connect result arrives: back_connection with BEV_EVENT_ERROR
ConnectFailed ==
    /\ bev["backend"] = "live" /\ cb["backend"] = "connect"
    /\ Becomes(back_connection(State, "backend", FALSE, "client"))

\* data arrives on a leg of the pipe: pipe_read
PipeData(e) ==
    /\ bev[e] = "live" /\ cb[e] = "pipe" /\ rdEnabled[e]
    /\ \E n \in 1..Unread(e) :
          Becomes(Recorded(State, pipe_read(SocketRead(State, e, n), e), e, "read"))

\* a timeout of a leg of the pipe passes: pipe_error with BEV_EVENT_TIMEOUT
PipeTimeout(e) ==
    /\ PipeErrorInstalled(e)
    /\ \E what \in {"read", "write"} :
          /\ IF what = "read" THEN ReadArmed(e) /\ rleft[e] = 0
                              ELSE WriteArmed(e) /\ wleft[e] = 0
          /\ Becomes(Recorded(State, pipe_error(TimeoutFired(State, e, what), e, TRUE),
                              e, "timeout"))

\* end of file or a socket error on a leg of the pipe: pipe_error without
\* the timeout bit
PipeFailure(e) ==
    /\ PipeErrorInstalled(e) /\ Watched(e)
    /\ Becomes(Recorded(State, pipe_error(State, e, FALSE), e, "error"))

\* libevent writes pending output of e to its socket
Flush(e) ==
    /\ bev[e] = "live" /\ output[e] # <<>>
    /\ \E n \in 1..Len(output[e]) : Becomes(SocketWrite(State, e, n))

\* one second passes; a timeout that is due is delivered first
Tick ==
    /\ \E e \in E : ReadArmed(e) \/ WriteArmed(e)
    /\ \A e \in E : ~Expired(e)
    /\ rleft' = [e \in E |-> IF ReadArmed(e) THEN rleft[e] - 1 ELSE rleft[e]]
    /\ wleft' = [e \in E |-> IF WriteArmed(e) THEN wleft[e] - 1 ELSE wleft[e]]
    /\ sinceTeardown' = IF Draining THEN Min(sinceTeardown + 1, Grace + 1)
                        ELSE sinceTeardown
    /\ UNCHANGED <<bev, cb, rdEnabled, rto, wto, input, output, delivered,
                   stream, pos, ctx, ctxAlloc, port, connects, uaf, last,
                   quiet, decided, bevFrees, ctxFrees>>

Next ==
    \/ Accept
    \/ \E started \in BOOLEAN : ClientHello(started)
    \/ \E started \in BOOLEAN : KnockTimedOut(started)
    \/ ClientLost
    \/ Connected
    \/ ConnectFailed
    \/ \E e \in E : PipeData(e)
    \/ \E e \in E : PipeTimeout(e)
    \/ \E e \in E : PipeFailure(e)
    \/ \E e \in E : Flush(e)
    \/ Tick

Spec == Init /\ [][Next]_vars

\* ------------------------------------------------------------ properties
IsPrefix(a, b) == Len(a) <= Len(b) /\ a = Take(b, Len(a))

\* C1: no callback touches a freed bufferevent or a freed struct otherside,
\* in either close order.
C1_SafeAsymmetricClose == ~uaf

\* C1 witness: the backend leg was closed first, by a corroborated timeout, and
\* the client leg has run pipe_read since (it is live past its grace second).
C1_Witness ==
    /\ bev["backend"] = "freed"
    /\ bev["client"] = "live"
    /\ last["backend"] = "timeout"
    /\ sinceTeardown > Grace
    /\ ~uaf

\* C2: in an active pipe a timeout on a leg whose peer's last event is not a
\* timeout closes neither endpoint; a timeout closes its endpoint only if the
\* peer's last event is a timeout.
C2_TimeoutCorroboration ==
    [][\A e \in E :
          (Active /\ last[Other(e)] # "timeout" /\ PipeTimeout(e))
              => (bev' = bev /\ ctxAlloc' = ctxAlloc)]_vars

\* C2 witness: the client leg has timed out, the backend leg has forwarded
\* data since, and the pipe is still active.
C2_Witness ==
    /\ Active
    /\ last["client"] = "timeout"
    /\ last["backend"] = "read"
    /\ ctx["backend"].other_timedout

\* C10 as stated: a timeout closes its endpoint only if the peer timed out and
\* neither leg forwarded data since.
C10_Original ==
    [][\A e \in E :
          (Active /\ bev'[e] = "freed" /\ PipeTimeout(e)) => quiet[Other(e)]]_vars

\* C10 amended: in an active pipe a timeout on endpoint A closes A exactly when
\* the last event of the peer B is a timeout; data forwarded by B since its
\* timeout prevents the close, data forwarded by A itself does not.
C10_PeerIdleOnly ==
    [][\A e \in E :
          (Active /\ PipeTimeout(e))
              => (bev'[e] = "freed" <=> last[Other(e)] = "timeout")]_vars

\* C10 witness: the client was closed by its timeout; the last event of the
\* backend before that was a timeout, and the client forwarded data after it.
C10_Witness ==
    /\ bev["client"] = "freed"
    /\ bev["backend"] = "live"
    /\ last["client"] = "timeout"
    /\ last["backend"] = "timeout"
    /\ ~quiet["backend"]

\* the knock as the claims state it: the first bytes equal the signature
StartsWithKnock(b) ==
    /\ Len(b) >= Len(knock_value)
    /\ \A i \in 1..Len(knock_value) : b[i] = knock_value[i]
WithoutKnock(b) == SubSeq(b, Len(knock_value) + 1, Len(b))

\* C3 as stated: whatever the segmentation, the port and the bytes of the
\* backend follow from the whole byte sequence of the client.
C3_Original ==
    (port # NULL /\ decided # <<>>) =>
        /\ port = IF StartsWithKnock(stream["client"])
                  THEN hidden_port ELSE normal_port
        /\ IsPrefix(delivered["backend"],
                    IF StartsWithKnock(stream["client"])
                    THEN WithoutKnock(stream["client"]) ELSE stream["client"])

\* C3 amended: when the bytes buffered at the first readiness event hold at
\* least knock_size bytes and start with the signature, the connection goes to
\* the hidden backend, which receives the client's bytes without that prefix;
\* otherwise (also when the signature arrives split over several reads) it
\* goes to the normal backend, which receives the client's bytes unmodified.
C3_KnockRouting ==
    (port # NULL /\ decided # <<>>) =>
        LET hit == StartsWithKnock(decided)
            Expected(b) == IF hit THEN WithoutKnock(b) ELSE b
        IN  /\ port = IF hit THEN hidden_port ELSE normal_port
            /\ connects = <<port>>
            /\ IsPrefix(delivered["backend"], Expected(stream["client"]))
            /\ Active => delivered["backend"] \o output["backend"]
                           = Expected(Take(stream["client"], pos["client"]))

\* C3 witness: a knock followed by more bytes went to the hidden backend, which
\* has received exactly the bytes after the knock.
C3_Witness ==
    /\ port = hidden_port
    /\ Active
    /\ delivered["backend"] # <<>>
    /\ delivered["backend"] = WithoutKnock(stream["client"])

\* C4: while the pipe is active, what each leg has written or holds queued is
\* exactly what was read from the other leg, in order (for the backend: the
\* client's bytes after the stripped knock).
C4_Fidelity ==
    Active =>
        /\ delivered["client"] \o output["client"]
              = Take(stream["backend"], pos["backend"])
        /\ delivered["backend"] \o output["backend"]
              = SubSeq(stream["client"],
                       (IF port = hidden_port THEN Len(knock_value) ELSE 0) + 1,
                       pos["client"])
        /\ \A e \in E : input[e] = <<>>

\* C4 witness: both directions have carried all their bytes, read in several
\* pieces.
C4_Witness ==
    /\ Active
    /\ port = normal_port
    /\ Len(decided) = 1
    /\ Len(stream["client"]) = MaxClientBytes
    /\ delivered["backend"] = stream["client"]
    /\ delivered["client"] = stream["backend"]

\* C5: a connect failure, at the call or reported later, frees both
\* bufferevents, creates no struct otherside and delivers nothing to a
\* backend; nothing happens on the connection afterwards.
C5_ConnectFailureIsolation ==
    [][/\ (ConnectFailed \/ ClientHello(FALSE) \/ KnockTimedOut(FALSE)) =>
              /\ bev' = [e \in E |-> "freed"]
              /\ ctxAlloc' = [e \in E |-> "none"]
              /\ delivered'["backend"] = <<>>
       /\ (\A e \in E : bev[e] = "freed") => delivered' = delivered]_vars

\* C5 witness: the connect failed for a client that had sent bytes.
C5_Witness ==
    /\ \A e \in E : bev[e] = "freed" /\ ctxAlloc[e] = "none"
    /\ port = hidden_port
    /\ pos["client"] = MaxClientBytes
    /\ delivered["backend"] = <<>>

\* C6 as stated: the survivor of a teardown is freed at the latest when its
\* grace period of one second is over, also when it keeps receiving data.
C6_Original == Draining => sinceTeardown <= Grace

\* C7: the knock timeout of a client that has sent nothing chooses the normal
\* port and starts exactly one connect, to that port; the client endpoint is
\* kept when the connect is under way.
C7_SilentClientGoesNormal ==
    [][\A started \in BOOLEAN :
          KnockTimedOut(started) =>
              /\ pos["client"] = 0
              /\ port' = normal_port
              /\ connects' = <<normal_port>>
              /\ started => bev'["client"] = "live" /\ cb'["backend"] = "connect"]_vars

\* C7 witness: the timeout routed a client that has bytes to send later.
C7_Witness ==
    /\ port = normal_port
    /\ pos["client"] = 0
    /\ stream["client"] = knock_value
    /\ connects = <<normal_port>>
    /\ cb["backend"] = "connect"

\* C8: the teardown of one endpoint of an active pipe leaves the peer's output
\* as it is and the peer live; the peer is freed only by a timeout or an error
\* of its own.
C8_TeardownKeepsPeerOutput ==
    [][\A e \in E :
          /\ (Active /\ bev'[e] = "freed" /\ (PipeTimeout(e) \/ PipeFailure(e))) =>
                /\ output'[Other(e)] = output[Other(e)]
                /\ delivered' = delivered
                /\ bev'[Other(e)] = "live"
                /\ cb'[Other(e)] = "pipe"
          /\ (bev[e] = "live" /\ cb[e] = "pipe" /\ bev[Other(e)] = "freed"
                 /\ bev'[e] = "freed") =>
                (PipeTimeout(e) \/ PipeFailure(e))]_vars

\* C8 witness: the client was torn down and the bytes read from it last are
\* still queued on the live backend endpoint.
C8_Witness ==
    /\ bev["client"] = "freed"
    /\ bev["backend"] = "live"
    /\ output["backend"] # <<>>
    /\ delivered["backend"] \o output["backend"] = stream["client"]

\* C9: at most one connect is started per connection, to the chosen port,
\* also after a connect failure.
C9_NoRetryNoFallback ==
    /\ Len(connects) <= 1
    /\ port = NULL => connects = <<>>
    /\ port # NULL => connects = <<port>>

\* C9 witness: the connect to the hidden port failed and nothing else was
\* tried.
C9_Witness ==
    /\ connects = <<hidden_port>>
    /\ \A e \in E : bev[e] = "freed" /\ ctxAlloc[e] = "none"

\* C11: a first readiness event that finds fewer than knock_size bytes buffered
\* chooses the normal port at once and starts the connect to it, removes no
\* byte from the buffer and leaves the detector state, also when the buffered
\* bytes are a proper prefix of the knock.
C11_ShortFirstReadGoesNormal ==
    [][\A started \in BOOLEAN :
          (cb["client"] = "initial" /\ Len(decided') < knock_size
              /\ ClientHello(started)) =>
              /\ port' = normal_port
              /\ connects' = <<normal_port>>
              /\ cb'["client"] # "initial"
              /\ started => /\ input'["client"] = decided'
                            /\ input'["client"] = Take(stream["client"], pos'["client"])
                            /\ cb'["backend"] = "connect"]_vars

\* C11 witness: the first byte of the knock arrived alone, the rest of the knock
\* is still to come, and the connect to the normal port is under way with the
\* byte still buffered.
C11_Witness ==
    /\ decided = Take(knock_value, knock_size - 1)
    /\ IsPrefix(knock_value, stream["client"])
    /\ port = normal_port
    /\ cb["backend"] = "connect"
    /\ input["client"] = decided

\* C12: the port is chosen once, by the first readiness or timeout event of the
\* connection, and never again; the bytes buffered at the connect and every
\* byte read from the client afterwards are queued for the backend as they
\* are, also when they complete or equal the knock.
C12_DecisionOnceThenRaw ==
    [][/\ port # NULL => (port' = port /\ connects' = connects /\ decided' = decided)
       /\ (port = NULL /\ port' # NULL) =>
              /\ pos["client"] = 0
              /\ \E started \in BOOLEAN : ClientHello(started) \/ KnockTimedOut(started)
       /\ (cb["backend"] = "connect" /\ Connected) =>
              (output'["backend"] = input["client"] /\ input'["client"] = <<>>)
       /\ (Active /\ PipeData("client")) =>
              delivered'["backend"] \o output'["backend"]
                  = delivered["backend"] \o output["backend"]
                      \o SubSeq(stream["client"], pos["client"] + 1, pos'["client"])]_vars

\* C12 witness: the first read held knock_size bytes that are not the knock; the
\* knock arrived after it and reached the normal backend with the rest.
C12_Witness ==
    /\ port = normal_port
    /\ Len(decided) = knock_size
    /\ Drop(stream["client"], knock_size) = knock_value
    /\ delivered["backend"] = stream["client"]

\* C13: a first read that starts with the knock loses exactly its first
\* knock_size bytes; at the connect the bytes left in the client's input become
\* the backend's output, so that in the active pipe the backend is sent the
\* bytes that followed the knock in the first read and then the bytes read
\* later, in the order the client sent them.
C13_PostKnockBytesFirst ==
    [][/\ \A started \in BOOLEAN :
              (cb["client"] = "initial" /\ StartsWithKnock(decided')
                  /\ ClientHello(started)) =>
                  /\ port' = hidden_port
                  /\ started => input'["client"] = WithoutKnock(decided')
       /\ (cb["backend"] = "connect" /\ Connected) =>
              output'["backend"] = input["client"]
       /\ (Active' /\ port' = hidden_port) =>
              delivered'["backend"] \o output'["backend"]
                  = WithoutKnock(decided')
                      \o SubSeq(stream'["client"], Len(decided') + 1, pos'["client"])]_vars

\* C13 witness: the first read held the knock and one more byte, another byte
\* was read after the connect, and the hidden backend received the two in
\* that order.
C13_Witness ==
    /\ Active
    /\ port = hidden_port
    /\ Len(decided) = knock_size + 1
    /\ pos["client"] = knock_size + 2
    /\ delivered["backend"] = Drop(stream["client"], knock_size)

\* C14: no endpoint and no struct otherside is ever freed twice; when both
\* endpoints of a pipe are freed, each endpoint and each of the two records
\* has been freed exactly once; and the first timeout or error of a draining
\* endpoint frees it and its record, whatever its other_timedout flag says.
C14_FreedExactlyOnce ==
    [][/\ \A e \in E : bevFrees'[e] <= 1 /\ ctxFrees'[e] <= 1
       /\ \A e \in E : bevFrees'[e] = (IF bev'[e] = "freed" THEN 1 ELSE 0)
       /\ \A e \in E : ctxFrees'[e] = (IF ctxAlloc'[e] = "freed" THEN 1 ELSE 0)
       /\ ((\A e \in E : bev'[e] = "freed") /\ (\E e \in E : ctxAlloc'[e] # "none")) =>
              \A e \in E : ctxFrees'[e] = 1
       /\ \A e \in E :
              (bev[e] = "live" /\ cb[e] = "pipe" /\ bev[Other(e)] = "freed"
                  /\ (PipeTimeout(e) \/ PipeFailure(e))) =>
                  (bev'[e] = "freed" /\ ctxAlloc'[e] = "freed")]_vars

\* C14 witness: the backend was closed by an error while the client's record
\* said that the backend had not timed out; the draining client was then
\* closed, and both endpoints and both records are freed, once each.
C14_Witness ==
    /\ \A e \in E : bev[e] = "freed" /\ ctxAlloc[e] = "freed"
    /\ \A e \in E : bevFrees[e] = 1 /\ ctxFrees[e] = 1
    /\ last["backend"] = "error"
    /\ last["client"] = "read"
    /\ ~ctx["client"].other_timedout

\* C15: an error other than a timeout on endpoint A of an active pipe frees A
\* and its record whatever the two other_timedout flags hold, and leaves the
\* peer B draining: B is live, its record points to no peer, its read and
\* write timeouts are one second and its reading is enabled.
C15_ErrorClosesAndDrainsPeer ==
    [][\A e \in E :
          (Active /\ PipeFailure(e)) =>
              /\ bev'[e] = "freed"
              /\ ctxAlloc'[e] = "freed"
              /\ bev'[Other(e)] = "live"
              /\ cb'[Other(e)] = "pipe"
              /\ ctx'[Other(e)].bev = NULL
              /\ ctx'[Other(e)].pair = NULL
              /\ rto'[Other(e)] = 1
              /\ wto'[Other(e)] = 1
              /\ rdEnabled'[Other(e)]
              /\ rleft'[Other(e)] = 1]_vars

\* C15 witness: the client failed after the backend had timed out (the
\* client's flag was set, the backend's was not); the backend is draining with
\* its timeouts of one second.
C15_Witness ==
    /\ bev["client"] = "freed"
    /\ last["client"] = "error"
    /\ last["backend"] = "timeout"
    /\ ctx["client"].other_timedout
    /\ ~ctx["backend"].other_timedout
    /\ bev["backend"] = "live"
    /\ ctx["backend"].bev = NULL
    /\ rto["backend"] = 1
    /\ wto["backend"] = 1
    /\ rdEnabled["backend"]

\* C16: a read on an endpoint whose peer was severed empties the endpoint's
\* input, queues and writes nothing anywhere, changes no record and frees
\* nothing; such an endpoint is freed only by a timeout or an error of its own.
C16_SeveredReadDiscards ==
    [][\A e \in E :
          (bev[e] = "live" /\ cb[e] = "pipe" /\ bev[Other(e)] = "freed") =>
              /\ ctx[e].bev = NULL
              /\ PipeData(e) =>
                    /\ pos'[e] > pos[e]
                    /\ input'[e] = <<>>
                    /\ output' = output
                    /\ delivered' = delivered
                    /\ ctx' = ctx
                    /\ ctxAlloc' = ctxAlloc
                    /\ bev' = bev
                    /\ cb' = cb
              /\ bev'[e] = "freed" => (PipeTimeout(e) \/ PipeFailure(e))]_vars

\* C16 witness: the client was freed first; the backend has read the rest of
\* its bytes since (it is live past its second of grace), none of them is
\* buffered and not all of them were written to the client.
C16_Witness ==
    /\ bev["client"] = "freed"
    /\ bev["backend"] = "live"
    /\ ctx["backend"].bev = NULL
    /\ sinceTeardown > Grace
    /\ pos["backend"] = MaxBackendBytes
    /\ input["backend"] = <<>>
    /\ Len(delivered["client"]) < MaxBackendBytes

\* C17: an error other than a timeout on a client that is still in the initial
\* handshake frees the client endpoint, once, and starts no connect; the
\* connection never gets a port, a backend endpoint or a struct otherside.
C17_DetectorErrorDiscards ==
    [][/\ (cb["client"] = "initial" /\ ClientLost) =>
              /\ bev'["client"] = "freed"
              /\ bevFrees'["client"] = 1
              /\ port' = NULL
              /\ connects' = <<>>
              /\ bev'["backend"] = "none"
              /\ ctxAlloc' = [e \in E |-> "none"]
       /\ (bev["client"] = "freed" /\ port = NULL) =>
              /\ port' = NULL
              /\ connects' = <<>>
              /\ bev' = bev
              /\ ctxAlloc' = ctxAlloc]_vars

\* C17 witness: a client that had bytes to send was lost before its first
\* read; nothing but its endpoint was ever created.
C17_Witness ==
    /\ bev["client"] = "freed"
    /\ port = NULL
    /\ stream["client"] # <<>>
    /\ pos["client"] = 0
    /\ bev["backend"] = "none"
    /\ connects = <<>>
    /\ \A e \in E : ctxAlloc[e] = "none"

\* C18: between callbacks every allocated struct otherside is either paired
\* (its bev is the live peer endpoint, its pair is the peer's allocated record,
\* and that record points back) or severed (bev and pair are both NULL).
C18_NoPartialPair ==
    \A e \in E :
        ctxAlloc[e] = "live" =>
            \/ /\ ctx[e].bev = Other(e)
               /\ bev[Other(e)] = "live"
               /\ ctx[e].pair = Other(e)
               /\ ctxAlloc[Other(e)] = "live"
               /\ ctx[Other(e)].pair = e
               /\ ctx[Other(e)].bev = e
               /\ bev[e] = "live"
            \/ /\ ctx[e].bev = NULL
               /\ ctx[e].pair = NULL

\* C18 witness: the backend leg was torn down by its timeout; the record of
\* the live client is severed in both references.
C18_Witness ==
    /\ ctxAlloc["client"] = "live"
    /\ ctxAlloc["backend"] = "freed"
    /\ bevFrees["backend"] = 1
    /\ last["backend"] = "timeout"
    /\ ctx["client"].bev = NULL
    /\ ctx["client"].pair = NULL

\* C19: while the client waits for the connect result its socket is not
\* polled and none of its timeouts runs, so the only steps are the two
\* connect results, which find the client endpoint live; and pipe_error only
\* ever runs for an endpoint whose struct otherside is allocated.
C19_ClientSilentWhileConnecting ==
    [][/\ cb["client"] = "wait" =>
              /\ bev["client"] = "live"
              /\ ~rdEnabled["client"]
              /\ output["client"] = <<>>
              /\ rto["client"] = 0 /\ wto["client"] = 0
              /\ Connected \/ ConnectFailed
       /\ (cb["backend"] = "connect" /\ (Connected \/ ConnectFailed)) =>
              (bev["client"] = "live" /\ cb["client"] = "wait")
       /\ \A e \in E :
              ((bev[e] = "live" /\ cb[e] \in {"wait", "pipe"})
                  /\ (PipeTimeout(e) \/ PipeFailure(e))) => ctxAlloc[e] = "live"]_vars

\* C19 witness: the knock was read, the connect to the hidden port is under
\* way, and the client has sent bytes that wait unread in its socket.
C19_Witness ==
    /\ cb["client"] = "wait"
    /\ cb["backend"] = "connect"
    /\ port = hidden_port
    /\ ~rdEnabled["client"]
    /\ pos["client"] < Len(stream["client"])

\* C20: while both endpoints of the pipe are live, the flag that says leg A
\* timed out (other_timedout in the record of the peer B) is true exactly when
\* the last event of A since the pairing is a timeout; an event on a leg
\* leaves the flag about the other leg as it is.
C20_FlagIsLastEvent ==
    [][/\ Active' =>
              \A e \in E : ctx'[Other(e)].other_timedout <=> (last'[e] = "timeout")
       /\ \A e \in E :
              (Active /\ Active' /\ (PipeData(e) \/ PipeTimeout(e))) =>
                  /\ ctx'[e].other_timedout = ctx[e].other_timedout
                  /\ last'[Other(e)] = last[Other(e)]]_vars

\* C20 witness: in the active pipe the backend's last event is a timeout and
\* the client's is a read; only the flag about the backend is set.
C20_Witness ==
    /\ Active
    /\ last["backend"] = "timeout"
    /\ last["client"] = "read"
    /\ ctx["client"].other_timedout
    /\ ~ctx["backend"].other_timedout

====
